---- MODULE Spec2Model ----
(***************************************************************************)
(* mcinterface: the character-output path of the wasmcraft2 wrapper.       *)
(*                                                                         *)
(* The wrapper functions mc_putc, print_str and println (src/lib.rs), the  *)
(* formatting sink MciWriteStream and the print!/println! macros           *)
(* (src/fmt.rs) and the panic handler (src/lib.rs) are modelled over the   *)
(* host's line buffer: characters accumulate until a newline code arrives, *)
(* which renders the accumulated buffer as one chat line.                  *)
(*                                                                         *)
(* A string (&str) is the sequence of its chars (Unicode scalar values),   *)
(* which is what s.chars() iterates over.                                  *)
(***************************************************************************)
EXTENDS Integers, Sequences, FiniteSets

\* ------------------------------------------------------------------ bounds

\* Longest string argument handed to one call.
MaxLen == 2

\* Number of wrapper calls made by the running program before it stops
\* calling (the panic handler may still be entered afterwards).
MaxCalls == 2

\* ------------------------------------------------------- program constants

\* '\n' as a char.
NL == 10

\* i32::MAX, the largest value `ch as i32` can produce.
I32_MAX == 2147483647

\* "RUST PANIC - entering infinite loop!"
PANIC_MSG ==
    << 82, 85, 83, 84, 32, 80, 65, 78, 73, 67, 32, 45, 32, 101, 110, 116,
       101, 114, 105, 110, 103, 32, 105, 110, 102, 105, 110, 105, 116, 101,
       32, 108, 111, 111, 112, 33 >>

\* ------------------------------------------------------------------ inputs

\* The chars the running program prints: '\n' and a printable char, the
\* non-ASCII U+20AC (the panic message supplies the ASCII ones).
Chars == {NL, 8364}

\* Every string argument of at most MaxLen chars.
Strs == UNION {[1..n -> Chars] : n \in 0..MaxLen}

\* ------------------------------------------------------------------- state

VARIABLES
    host,     \* the host side of mc_putc: [sent, pending, lines]
    tick,     \* parity of the game ticks mc_sleep has waited for
    mode,     \* "Running" until the panic handler is entered, then "Faulted"
    cause,    \* what entered the panic handler: "none", "panic", "unwrap"
    calls,    \* wrapper calls made by the running program
    lastOp,   \* name of the latest call
    lastArg,  \* chars handed to the latest call
    lastRet,  \* its core::fmt::Result ("Ok"/"Err"), "none" for a unit function
    before,   \* host before the latest call that writes output
    given,    \* every char the calls so far were asked to write, in call order
    run       \* the latest run of consecutive calls of one forwarding function

vars == <<host, tick, mode, cause, calls, lastOp, lastArg, lastRet, before,
          given, run>>

\* ----------------------------------------------------------------- helpers

Range(s) == {s[i] : i \in 1..Len(s)}

Last(s) == s[Len(s)]

\* Number of occurrences of x in s.
Count(x, s) == Cardinality({i \in 1..Len(s) : s[i] = x})

\* ------------------------------------------------------------ the host side

EmptyHost == [sent |-> <<>>, pending |-> <<>>, lines |-> <<>>]

\* The positions of the newline code in a sequence of codes.
NewlinesAt(codes) == {i \in 1..Len(codes) : codes[i] = NL}

\* The j-th of them, counted from the left.
NthNewline(codes, j) ==
    CHOOSE p \in NewlinesAt(codes) :
        Cardinality({q \in NewlinesAt(codes) : q <= p}) = j

\* The host after its mc_putc(ch: i32) primitive was invoked with each of
\* codes, in order.  A code joins the line buffer; the newline code renders
\* the buffer as one chat line and clears it.  So, with the buffer and the
\* codes laid end to end, each newline closes the line that started after the
\* previous one, and what follows the last newline is the new buffer.  sent
\* records every code the primitive received.  A line is kept as the codes it
\* was rendered from; the glyph the chat draws for a code is not modelled.
Deliver(h, codes) ==
    LET all   == h.pending \o codes
        k     == Cardinality(NewlinesAt(all))
        from(j) == IF j = 1 THEN 1 ELSE NthNewline(all, j - 1) + 1
    IN  [sent    |-> h.sent \o codes,
         pending |-> SubSeq(all, from(k + 1), Len(all)),
         lines   |-> h.lines \o
                     [j \in 1..k |-> SubSeq(all, from(j), NthNewline(all, j) - 1)]]

\* ------------------------------------------------------------- src/lib.rs
\* A wrapper function is modelled by the invocations of the host primitive it
\* makes: the sequence of codes it passes to _mci_unsafe_mc_putc, in order.

\* (A slip: `ch as u8 as i32`, which keeps the low byte only.)
CharAsU8(ch) == ch % 256

\* `ch as i32`: a char is a u32 scalar value, reinterpreted as i32.
CharAsI32(ch) == IF ch <= I32_MAX THEN ch ELSE ch - I32_MAX - I32_MAX - 2

\* pub fn mc_putc(ch: char) { unsafe { _mci_unsafe_mc_putc(ch as i32) } }
\* One invocation; mc_putc(ch) is the code it passes.
mc_putc(ch) == CharAsI32(ch)

\* (A slip: print_str ending its output with a newline, as println does.)
print_str_flush(s) == Append([i \in 1..Len(s) |-> mc_putc(s[i])], mc_putc(NL))

\* (A slip: a loop that stops one char early.)
print_str_short(s) == [i \in 1..Len(s) - 1 |-> mc_putc(s[i])]

\* pub fn print_str(s: &str) { for c in s.chars() { mc_putc(c); } }
\* One mc_putc per char, first to last.
print_str(s) == [i \in 1..Len(s) |-> mc_putc(s[i])]

\* (A slip: println without its trailing mc_putc('\n').)
println_bare(s) == [i \in 1..Len(s) |-> mc_putc(s[i])]

\* pub fn println(s: &str): the same loop, then mc_putc('\n').
println(s) == Append([i \in 1..Len(s) |-> mc_putc(s[i])], mc_putc(NL))

\* (A slip: a handler that first ends the line in progress.)
panic_fresh_line == <<mc_putc(NL)>> \o println(PANIC_MSG)

\* The panic handler up to its loop: println("RUST PANIC - ...").
panic == println(PANIC_MSG)

\* The host's mc_sleep: the program resumes at the next game tick.
mc_sleep(t) == ~t

\* ------------------------------------------------------------- src/fmt.rs

\* (A slip: reporting an empty write as an error.)
write_str_strict(s) ==
    [out |-> print_str(s), ret |-> IF s = <<>> THEN "Err" ELSE "Ok"]

\* (A slip: a separating space after every write.)
write_str_spaced(s) == [out |-> Append(print_str(s), 32), ret |-> "Ok"]

\* MciWriteStream::write_str: crate::print_str(s); Ok(())
write_str(s) == [out |-> print_str(s), ret |-> "Ok"]

\* (A slip: forwarding the char twice.)
write_char_twice(c) == [out |-> <<mc_putc(c), mc_putc(c)>>, ret |-> "Ok"]

\* MciWriteStream::write_char: crate::mc_putc(c); Ok(())
write_char(c) == [out |-> <<mc_putc(c)>>, ret |-> "Ok"]

\* One piece of formatted output: a string slice handed to write_str or a
\* single char handed to write_char.
StrPiece(s) == [k |-> "str", v |-> s]

CharPiece(c) == [k |-> "char", v |-> <<c>>]

write_piece(p) ==
    IF p.k = "str" THEN write_str(p.v) ELSE write_char(Head(p.v))

\* write!(MciWriteStream, ...): the pieces of the formatted output go to the
\* sink one after the other; the first Err ends the write and is returned.
RECURSIVE write_fmt(_)
write_fmt(pieces) ==
    IF pieces = <<>>
    THEN [out |-> <<>>, ret |-> "Ok"]
    ELSE LET r == write_piece(Head(pieces))
             t == write_fmt(Tail(pieces))
         IN  IF r.ret = "Err" THEN r ELSE [out |-> r.out \o t.out, ret |-> t.ret]

\* writeln!: the format string with "\n" concatenated, so the newline joins
\* the last literal piece, or is a piece of its own after an argument.
WithNewline(pieces) ==
    IF pieces # <<>> /\ Last(pieces).k = "str"
    THEN [pieces EXCEPT ![Len(pieces)] = StrPiece(Append(Last(pieces).v, NL))]
    ELSE Append(pieces, StrPiece(<<NL>>))

\* The chars of a sequence of pieces, in order.
RECURSIVE Flatten(_)
Flatten(pieces) ==
    IF pieces = <<>> THEN <<>> ELSE Head(pieces).v \o Flatten(Tail(pieces))

\* The ways the formatting layer hands the output s to the sink: as one
\* literal piece, or as a literal piece followed by a formatted argument,
\* which is a string slice or, when it is one char, a single char.
PiecesOf(s) ==
    {<<StrPiece(s)>>}
    \cup
    {<<StrPiece(SubSeq(s, 1, i)), StrPiece(SubSeq(s, i + 1, Len(s)))>> :
        i \in 0..Len(s)}
    \cup
    {<<StrPiece(SubSeq(s, 1, i)), CharPiece(s[i + 1])>> :
        i \in {j \in 0..Len(s) : j = Len(s) - 1}}

\* The empty format string has no piece at all.
Formats == {<<>>} \cup UNION {PiecesOf(s) : s \in Strs}

\* ------------------------------------------------------------------- Init

NoRun == [op |-> "none", n |-> 0, start |-> EmptyHost, arg |-> <<>>]

Init ==
    /\ host = EmptyHost
    /\ tick = FALSE
    /\ mode = "Running"
    /\ cause = "none"
    /\ calls = 0
    /\ lastOp = "none"
    /\ lastArg = <<>>
    /\ lastRet = "none"
    /\ before = EmptyHost
    /\ given = <<>>
    /\ run = NoRun

\* ----------------------------------------------------------------- actions

CanCall == mode = "Running" /\ calls < MaxCalls

\* The run of consecutive calls of the forwarding function op, extended by a
\* call with argument s made in host state h.
Extend(op, h, s) ==
    IF run.op = op
    THEN [run EXCEPT !.n = @ + 1, !.arg = @ \o s]
    ELSE [op |-> op, n |-> 1, start |-> h, arg |-> s]

\* A call op(s) that returns ret after invoking the host primitive with out.
Wrote(op, s, asked, ret, out) ==
    /\ host' = Deliver(host, out)
    /\ before' = host
    /\ lastOp' = op
    /\ lastArg' = s
    /\ lastRet' = ret
    /\ given' = given \o asked
    /\ calls' = calls + 1
    /\ UNCHANGED <<tick, mode, cause>>

McPutc ==
    /\ CanCall
    /\ \E c \in Chars :
        /\ Wrote("mc_putc", <<c>>, <<c>>, "none", <<mc_putc(c)>>)
        /\ run' = Extend("mc_putc", host, <<c>>)

PrintStr ==
    /\ CanCall
    /\ \E s \in Strs :
        /\ Wrote("print_str", s, s, "none", print_str(s))
        /\ run' = Extend("print_str", host, s)

Println ==
    /\ CanCall
    /\ \E s \in Strs :
        /\ Wrote("println", s, Append(s, NL), "none", println(s))
        /\ run' = NoRun

WriteStr ==
    /\ CanCall
    /\ \E s \in Strs :
        LET r == write_str(s)
        IN  /\ Wrote("write_str", s, s, r.ret, r.out)
            /\ run' = Extend("write_str", host, s)

WriteChar ==
    /\ CanCall
    /\ \E c \in Chars :
        LET r == write_char(c)
        IN  /\ Wrote("write_char", <<c>>, <<c>>, r.ret, r.out)
            /\ run' = Extend("write_char", host, <<c>>)

\* The body shared by print! and println!: write!(...).unwrap().  An Err
\* makes unwrap() panic, which enters the panic handler.
Unwrapped(op, s, asked, r) ==
    IF r.ret = "Ok"
    THEN /\ Wrote(op, s, asked, r.ret, r.out)
         /\ run' = NoRun
    ELSE /\ host' = Deliver(Deliver(host, r.out), panic)
         /\ before' = Deliver(host, r.out)
         /\ lastOp' = "panic"
         /\ lastArg' = PANIC_MSG
         /\ lastRet' = r.ret
         /\ given' = given \o PANIC_MSG \o <<NL>>
         /\ mode' = "Faulted"
         /\ cause' = "unwrap"
         /\ run' = NoRun
         /\ UNCHANGED <<tick, calls>>

\* print!(...): write!(MciWriteStream, ...).unwrap()
PrintMacro ==
    /\ CanCall
    /\ \E f \in Formats :
        Unwrapped("print!", Flatten(f), Flatten(f), write_fmt(f))

\* println!(...): writeln!(MciWriteStream, ...).unwrap()
PrintlnMacro ==
    /\ CanCall
    /\ \E f \in Formats :
        Unwrapped("println!", Flatten(f), Append(Flatten(f), NL),
                  write_fmt(WithNewline(f)))

\* println!(): mc_putc('\n')
PrintlnMacroEmpty ==
    /\ CanCall
    /\ Wrote("println!", <<>>, <<NL>>, "none", <<mc_putc(NL)>>)
    /\ run' = NoRun

\* mc_sleep() called by the running program: it writes nothing.
McSleep ==
    /\ CanCall
    /\ tick' = mc_sleep(tick)
    /\ lastOp' = "mc_sleep"
    /\ lastArg' = <<>>
    /\ lastRet' = "none"
    /\ calls' = calls + 1
    /\ run' = NoRun
    /\ UNCHANGED <<host, before, given, mode, cause>>

\* The running program panics: the panic handler prints its line.
Panic ==
    /\ mode = "Running"
    /\ host' = Deliver(host, panic)
    /\ before' = host
    /\ lastOp' = "panic"
    /\ lastArg' = PANIC_MSG
    /\ lastRet' = "none"
    /\ given' = given \o PANIC_MSG \o <<NL>>
    /\ mode' = "Faulted"
    /\ cause' = "panic"
    /\ run' = NoRun
    /\ UNCHANGED <<tick, calls>>

\* (A slip: a loop that prints the message at every turn.)
HaltLoop_reprint ==
    /\ mode = "Faulted"
    /\ tick' = mc_sleep(tick)
    /\ host' = Deliver(host, panic)
    /\ lastOp' = "mc_sleep"
    /\ lastArg' = <<>>
    /\ lastRet' = "none"
    /\ UNCHANGED <<before, given, mode, cause, calls, run>>

\* (A slip: a handler that returns to the running program.)
HaltLoop_returns ==
    /\ mode = "Faulted"
    /\ tick' = mc_sleep(tick)
    /\ mode' = "Running"
    /\ lastOp' = "mc_sleep"
    /\ lastArg' = <<>>
    /\ lastRet' = "none"
    /\ UNCHANGED <<host, before, given, cause, calls, run>>

\* One turn of the panic handler's loop { mc_sleep(); }.
HaltLoop ==
    /\ mode = "Faulted"
    /\ tick' = mc_sleep(tick)
    /\ lastOp' = "mc_sleep"
    /\ lastArg' = <<>>
    /\ lastRet' = "none"
    /\ UNCHANGED <<host, before, given, mode, cause, calls, run>>

Next ==
    \/ McPutc
    \/ PrintStr
    \/ Println
    \/ WriteStr
    \/ WriteChar
    \/ PrintMacro
    \/ PrintlnMacro
    \/ PrintlnMacroEmpty
    \/ McSleep
    \/ Panic
    \/ HaltLoop

Spec == Init /\ [][Next]_vars

\* The host scheduler resumes the program at every game tick, so the panic
\* handler's loop keeps turning.
FairSpec == Spec /\ WF_vars(HaltLoop)

\* -------------------------------------------------------------- properties

\* The codes the primitive received during the latest call.
Forwarded == SubSeq(host.sent, Len(before.sent) + 1, Len(host.sent))

\* The codes the primitive received during the latest run.
ForwardedInRun == SubSeq(host.sent, Len(run.start.sent) + 1, Len(host.sent))

\* C1: the codes the host primitive has received are exactly the chars the
\* calls so far were handed, in call order, each once: nothing is dropped,
\* duplicated, merged, reordered or held back, and a newline is forwarded
\* like any other char.
C1_ForwardedIsGiven ==
    /\ host.sent = given
    /\ lastOp \in {"write_str", "write_char", "print_str", "mc_putc"}
          => Forwarded = lastArg

C1_Witness ==
    /\ lastOp = "write_char"
    /\ lastArg = <<8364>>
    /\ before.sent = <<8364, NL>>
    /\ host.sent = <<8364, NL, 8364>>

\* C2: write_str and write_char return Ok for every input, the empty string
\* included, so no Err reaches the unwrap() of print!/println! and the panic
\* handler is never entered from there.
C2_AlwaysOk ==
    /\ lastRet # "Err"
    /\ cause # "unwrap"
    /\ lastOp \in {"write_str", "write_char", "print!"} => lastRet = "Ok"

C2_Witness ==
    /\ lastOp = "write_str"
    /\ lastArg = <<>>
    /\ lastRet = "Ok"
    /\ host.pending = <<8364>>
    /\ host.lines = <<<<>>>>

\* C3: print_str(s) and print!(s) with no newline in s forward exactly the
\* chars of s, in order, and flush nothing: the rendered lines are unchanged
\* and the pending buffer grows by s.  In every state the host has rendered
\* as many lines as newlines were forwarded.
C3_NoNewlineNoFlush ==
    /\ (lastOp \in {"print_str", "print!"} /\ NL \notin Range(lastArg))
          => /\ Forwarded = lastArg
             /\ host.lines = before.lines
             /\ host.pending = before.pending \o lastArg
    /\ Len(host.lines) = Count(NL, host.sent)

C3_Witness ==
    /\ lastOp = "print!"
    /\ lastArg = <<8364, 8364>>
    /\ before.lines # <<>>
    /\ before.pending # <<>>

C5_TwoWritesAsOne ==
    (run.op = "write_str" /\ run.n = 2)
      => /\ host = Deliver(run.start, write_str(run.arg).out)
         /\ lastRet = write_str(run.arg).ret
         /\ NL \notin Range(run.arg)
               => /\ host.lines = run.start.lines
                  /\ host.pending = run.start.pending \o run.arg

C5_Witness ==
    /\ run.op = "write_str"
    /\ run.n = 2
    /\ run.arg = <<8364, 8364, NL>>
    /\ lastArg = <<NL>>

\* C6: n calls write_char(c1), ..., write_char(cn) invoke the primitive as
\* the one call write_str(c1 ... cn) does and leave the same host and result;
\* likewise mc_putc(c1), ..., mc_putc(cn) and print_str(c1 ... cn).
C6_CharsAsString ==
    /\ run.op = "write_char"
          => /\ ForwardedInRun = write_str(run.arg).out
             /\ host = Deliver(run.start, write_str(run.arg).out)
             /\ lastRet = write_str(run.arg).ret
    /\ run.op = "mc_putc"
          => /\ ForwardedInRun = print_str(run.arg)
             /\ host = Deliver(run.start, print_str(run.arg))

C6_Witness ==
    /\ run.op = "write_char"
    /\ run.n = 2
    /\ run.arg = <<8364, NL>>

\* C7: entering the panic handler forwards "RUST PANIC - entering infinite
\* loop!" and one newline, once; from then on nothing more is forwarded and
\* the host's rendered lines never change.
C7_PanicLineOnce ==
    /\ [](mode = "Faulted" => host.sent = before.sent \o PANIC_MSG \o <<NL>>)
    /\ [][mode = "Faulted" => host' = host]_vars

C7_Witness ==
    /\ mode = "Faulted"
    /\ lastOp = "mc_sleep"
    /\ tick = FALSE
    /\ before.sent = <<8364, NL, 8364>>

\* C8: Faulted is terminal: the panic handler never returns, no wrapper but
\* mc_sleep runs again, and with the host resuming the program at every tick
\* mc_sleep is invoked again and again, for ever.
C8_HaltForever ==
    /\ [][mode = "Faulted"
            => /\ mode' = "Faulted"
               /\ lastOp' = "mc_sleep"
               /\ tick' # tick
               /\ host' = host]_vars
    /\ \A b \in BOOLEAN :
          (mode = "Faulted" /\ tick = b) ~> (mode = "Faulted" /\ tick # b)

C8_Witness ==
    /\ mode = "Faulted"
    /\ lastOp = "mc_sleep"
    /\ tick = TRUE
    /\ calls = MaxCalls

\* C9 (as stated): every call to write_str or write_char invokes the
\* primitive at least once.
C9_AtLeastOnePutc ==
    lastOp \in {"write_str", "write_char"} => Len(Forwarded) >= 1

\* C9 (amended): write_char(c) invokes the primitive exactly once and
\* write_str(s) once per char of s, in input order: at least once when s is
\* not empty, and not at all when s is the empty string.
C9_OnePutcPerChar ==
    /\ lastOp = "write_char" => Len(Forwarded) = 1 /\ Forwarded = lastArg
    /\ lastOp = "write_str"
          => /\ Len(Forwarded) = Len(lastArg)
             /\ \A i \in 1..Len(lastArg) : Forwarded[i] = lastArg[i]

C9_Witness ==
    /\ lastOp = "write_str"
    /\ lastArg = <<>>
    /\ Forwarded = <<>>
    /\ before.sent # <<>>

\* C10 (as stated): a fault makes the host render one new line that holds
\* the panic message and nothing else, and the pending buffer stays empty.
C10_PanicLineAlone ==
    mode = "Faulted"
      => /\ host.lines = Append(before.lines, PANIC_MSG)
         /\ host.pending = <<>>

\* C10 (amended): a fault makes the host render one new line, which holds
\* the chars that were pending when the handler was entered followed by the
\* panic message (the message alone when nothing was pending), and the
\* pending buffer stays empty.
C10_PanicLineAfterPending ==
    mode = "Faulted"
      => /\ host.lines = Append(before.lines, before.pending \o PANIC_MSG)
         /\ host.pending = <<>>

C10_Witness ==
    /\ mode = "Faulted"
    /\ lastOp = "mc_sleep"
    /\ before.pending = <<8364>>
    /\ Last(host.lines) = <<8364>> \o PANIC_MSG

====
